---- MODULE Spec2Model ----
(***************************************************************************)
(* geyserbench: endpoint runners racing into shared trackers.              *)
(*                                                                         *)
(* Two runner variants are in the source tree:                             *)
(*   - the dual-stream runner (providers/yellowstone_accounts.rs), which   *)
(*     feeds a local and a global Dual-Stream Tracker and the Race Tracker *)
(*     (Comparator);                                                       *)
(*   - the bundled-entry runner (providers/shredstream_proxy.rs), which    *)
(*     feeds the Race Tracker only.                                        *)
(* The Comparator itself (crate::utils) is not part of the source tree; it *)
(* is modelled from its documented contract.                               *)
(*                                                                         *)
(* Every runner is a task; a step of the model is one resolution of the    *)
(* runner's tokio::select! with the task-local code that follows it, one   *)
(* critical section of a std::sync::Mutex, or one write_log_entry.  Tasks  *)
(* run on several threads, so steps of different tasks interleave freely.  *)
(*                                                                         *)
(* Option<T> is modelled as a set with at most one element: None is {},    *)
(* Some(x) is {x}.  A HashMap<String, V> whose values carry their key in   *)
(* the field `signature` is modelled as the set of its values.             *)
(***************************************************************************)
EXTENDS Naturals, Integers, Sequences, FiniteSets

\* ---------------------------------------------------------------- bounds
\* wall-clock readings are 0..MaxTime
MaxTime == 1
\* total number of stream messages delivered to all runners in one run
MaxMsgs == 2
\* largest number of matching transactions carried by one bundled entry
MaxBundle == 1
\* largest configured target (config.transactions)
MaxTarget == 2

\* endpoints that use the dual-stream provider / the bundled-entry provider
YsNames == {"ysA", "ysB", "ysC"}
ShredNames == {"shred"}
Names == YsNames \cup ShredNames
\* the endpoint configurations a run is started with: up to two runners
Configs == { {"ysA"}, {"ysA", "ysB"}, {"ysA", "shred"}, {"shred"} }
\* the same with three dual-stream endpoints among them
ConfigsAll == Configs \cup { {"ysA", "ysB", "ysC"} }
\* signatures the providers may deliver
Sigs == {"S1", "S2"}

VARIABLES
    endpoints,              \* configured endpoints (one runner task each)
    transactions,           \* config.transactions, the target N
    pc,                     \* position of every runner task
    cur,                    \* (signature, timestamp) of the transaction or update in hand
    pending,                \* bundled-entry runner: matching transactions still to process
    stream_latencies,       \* dual-stream runner: local Dual-Stream Tracker
    transaction_count,      \* per runner local counter
    account_update_count,   \* dual-stream runner: account updates received
    GLOBAL_ACCOUNT_TRACKER, \* global Dual-Stream Tracker
    comparator,             \* Race Tracker
    SHUTDOWN_COUNT,         \* static AtomicUsize of the dual-stream runner
    shutdown_rx,            \* receivers holding an undelivered shutdown signal
    now,                    \* the process clock
    budget,                 \* stream messages not yet delivered
    shutdown_sends,         \* history: number of shutdown_tx.send calls
    stats_calls,            \* history: number of print_global_statistics calls
    submitted,              \* history: observations merged into the global tracker
    observed,               \* history: (endpoint, signature) of every Comparator::add call
    cause,                  \* history: what ended every runner's loop or task
    in_hand,                \* kind of the stream message a runner is handling
    guards,                 \* MutexGuards alive in every task
    stream_report,          \* what print_stream_statistics printed, per runner (None: nothing)
    global_report           \* what print_global_statistics printed last

vars == << endpoints, transactions, pc, cur, pending, stream_latencies,
           transaction_count, account_update_count, GLOBAL_ACCOUNT_TRACKER,
           comparator, SHUTDOWN_COUNT, shutdown_rx, now, budget, shutdown_sends,
           stats_calls, submitted, observed, cause, in_hand, guards,
           stream_report, global_report >>

\* ---------------------------------------------------------------- data
None == {}
Some(x) == {x}
unwrap(opt) == CHOOSE x \in opt : TRUE

NoMsg == [signature |-> "", timestamp |-> 0]

\* StreamLatencyData with every slot empty (the or_insert argument)
NewLatencyData(sig) ==
    [ signature |-> sig,
      account_timestamp |-> None,
      transaction_timestamp |-> None,
      account_endpoint |-> None,
      transaction_endpoint |-> None ]

\* HashMap::get on a map keyed by signature
has_key(map, sig) == \E d \in map : d.signature = sig
get(map, sig) == CHOOSE d \in map : d.signature = sig

\* replace the value `old` of a map by `new`
put(map, old, new) == (map \ {old}) \cup {new}

\* HashMap::entry(sig).or_insert(NewLatencyData(sig)): the map afterwards
entry_or_insert_Duplicate(map, sig) == map \cup {NewLatencyData(sig)}
entry_or_insert(map, sig) ==
    IF has_key(map, sig) THEN map ELSE map \cup {NewLatencyData(sig)}

\* get_current_timestamp(): a reading of the clock, which never runs backwards
ClockReadings == now .. MaxTime

\* ---------------------------------------------------------------- Dual-Stream Tracker
\* local tracker, transaction observation: the timestamp is stored, the endpoint
\* only when the slot's endpoint is unset
LocalTransaction(map, sig, ts, ep) ==
    LET m == entry_or_insert(map, sig)
        e == get(m, sig)
        e1 == [e EXCEPT !.transaction_timestamp = Some(ts)]
        e2 == IF e1.transaction_endpoint = None
              THEN [e1 EXCEPT !.transaction_endpoint = Some(ep)]
              ELSE e1
    IN  put(m, e, e2)

\* local tracker, account-update observation
LocalAccount(map, sig, ts, ep) ==
    LET m == entry_or_insert(map, sig)
        e == get(m, sig)
        e1 == [e EXCEPT !.account_timestamp = Some(ts)]
        e2 == IF e1.account_endpoint = None
              THEN [e1 EXCEPT !.account_endpoint = Some(ep)]
              ELSE e1
    IN  put(m, e, e2)

\* global tracker, transaction slot: replaced only by a strictly earlier timestamp
GlobalTransaction_LastWins(map, sig, ts, ep) ==
    LET m == entry_or_insert(map, sig)
        e == get(m, sig)
    IN  put(m, e, [e EXCEPT !.transaction_timestamp = Some(ts),
                            !.transaction_endpoint = Some(ep)])
GlobalTransaction_KeepEndpoint(map, sig, ts, ep) ==
    LET m == entry_or_insert(map, sig)
        e == get(m, sig)
    IN  IF e.transaction_timestamp = None
        THEN put(m, e, [e EXCEPT !.transaction_timestamp = Some(ts),
                                 !.transaction_endpoint = Some(ep)])
        ELSE IF ts < unwrap(e.transaction_timestamp)
             THEN put(m, e, [e EXCEPT !.transaction_timestamp = Some(ts)])
             ELSE m
GlobalTransaction(map, sig, ts, ep) ==
    LET m == entry_or_insert(map, sig)
        e == get(m, sig)
    IN  IF e.transaction_timestamp = None \/ ts < unwrap(e.transaction_timestamp)
        THEN put(m, e, [e EXCEPT !.transaction_timestamp = Some(ts),
                                 !.transaction_endpoint = Some(ep)])
        ELSE m

\* global tracker, account slot
GlobalAccount_LastWins(map, sig, ts, ep) ==
    LET m == entry_or_insert(map, sig)
        e == get(m, sig)
    IN  put(m, e, [e EXCEPT !.account_timestamp = Some(ts),
                            !.account_endpoint = Some(ep)])
GlobalAccount(map, sig, ts, ep) ==
    LET m == entry_or_insert(map, sig)
        e == get(m, sig)
    IN  IF e.account_timestamp = None \/ ts < unwrap(e.account_timestamp)
        THEN put(m, e, [e EXCEPT !.account_timestamp = Some(ts),
                                 !.account_endpoint = Some(ep)])
        ELSE m

\* ---------------------------------------------------------------- Race Tracker
\* A RaceRecord is [signature, entries], entries being the sequence of
\* [endpoint, timestamp] pairs in order of arrival.
has_entry(rec, ep) == \E i \in 1..Len(rec.entries) : rec.entries[i].endpoint = ep

\* Comparator::add(endpoint_name, TransactionData)
add_Overwrite(cmp, ep, data) ==
    LET mine == [endpoint |-> ep, timestamp |-> data.timestamp]
    IN  IF ~ has_key(cmp, data.signature)
        THEN cmp \cup {[signature |-> data.signature, entries |-> << mine >>]}
        ELSE LET rec == get(cmp, data.signature)
             IN  IF has_entry(rec, ep)
                 THEN put(cmp, rec,
                          [rec EXCEPT !.entries =
                              [i \in 1..Len(rec.entries) |->
                                  IF rec.entries[i].endpoint = ep THEN mine
                                  ELSE rec.entries[i]]])
                 ELSE put(cmp, rec, [rec EXCEPT !.entries = Append(@, mine)])
add_Reopen(cmp, ep, data) ==
    LET mine == [endpoint |-> ep, timestamp |-> data.timestamp]
    IN  IF ~ has_key(cmp, data.signature)
        THEN cmp \cup {[signature |-> data.signature, entries |-> << mine >>]}
        ELSE LET rec == get(cmp, data.signature)
             IN  IF has_entry(rec, ep)
                 THEN put(cmp, rec, [rec EXCEPT !.entries = << >>])
                 ELSE put(cmp, rec, [rec EXCEPT !.entries = Append(@, mine)])
add(cmp, ep, data) ==
    LET mine == [endpoint |-> ep, timestamp |-> data.timestamp]
    IN  IF ~ has_key(cmp, data.signature)
        THEN cmp \cup {[signature |-> data.signature, entries |-> << mine >>]}
        ELSE LET rec == get(cmp, data.signature)
             IN  IF has_entry(rec, ep)
                 THEN cmp
                 ELSE put(cmp, rec, [rec EXCEPT !.entries = Append(@, mine)])

\* a record is complete once at least one endpoint has reported it
is_complete(rec) == Len(rec.entries) >= 1

\* Comparator::get_valid_count()
get_valid_count(cmp) == Cardinality({rec \in cmp : is_complete(rec)})

\* the TransactionData handed to add (start_time is the same for the whole run)
TransactionData(sig, ts) == [timestamp |-> ts, signature |-> sig]

\* ---------------------------------------------------------------- Statistics Reporter
\* A quotient the reporter computes in f64, kept as numerator and denominator.
ratio(n, d) == [num |-> n, den |-> d]

\* f64::abs
abs(x) == IF x < 0 THEN 0 - x ELSE x

\* Vec indexing, 0-based; None stands for the out-of-bounds panic
nth(seq, i) == IF i + 1 \in DOMAIN seq THEN Some(seq[i + 1]) ELSE None

\* iter().sum()
RECURSIVE sum(_)
sum(seq) == IF seq = << >> THEN 0 ELSE Head(seq) + sum(Tail(seq))

\* the Vec of the differences key[d] pushed for the records d, after
\* sort_by(partial_cmp)
RECURSIVE sorted_by(_, _)
sorted_by(records, key) ==
    IF records = {} THEN << >>
    ELSE LET least == CHOOSE d \in records : \A e \in records : key[d] <= key[e]
         IN  << key[least] >> \o sorted_by(records \ {least}, key)

\* if let (Some(acct_ts), Some(tx_ts)) = (data.account_timestamp, data.transaction_timestamp)
both_streams(d) == d.account_timestamp # None /\ d.transaction_timestamp # None

\* if acct_ts < tx_ts { account first } else { transaction first }
account_first(d) == unwrap(d.account_timestamp) < unwrap(d.transaction_timestamp)

\* the timing difference pushed for a record, in milliseconds
global_diff(d) == (unwrap(d.transaction_timestamp) - unwrap(d.account_timestamp)) * 1000
stream_diff(d) == abs(unwrap(d.transaction_timestamp) - unwrap(d.account_timestamp)) * 1000

\* if both_received > 0: the both-streams section is printed
has_data_Always(both_received) == TRUE
has_data(both_received) == both_received > 0

\* the both-streams section of a report: counts, percentages, and the
\* average, median, minimum and maximum of the sorted differences
timing_section(qualifying, diffs) ==
    LET both_received == Cardinality(qualifying)
        first == Cardinality({d \in qualifying : account_first(d)})
        second == Cardinality({d \in qualifying : ~ account_first(d)})
    IN  IF has_data(both_received)
        THEN Some([ account_faster |-> first,
                    tx_faster |-> second,
                    account_percentage |-> ratio(first, both_received),
                    tx_percentage |-> ratio(second, both_received),
                    avg_diff |-> ratio(sum(diffs), both_received),
                    median_diff |-> nth(diffs, Len(diffs) \div 2),
                    min_diff |-> nth(diffs, 0),
                    max_diff |-> nth(diffs, Len(diffs) - 1) ])
        ELSE None

\* the endpoint recorded in a slot ("account" or "transaction") of a record
slot_endpoint(d, slot) ==
    IF slot = "account" THEN d.account_endpoint ELSE d.transaction_endpoint

\* the per-endpoint win percentages of one slot: count over global_tracker.len()
endpoint_wins(tracker, slot) ==
    { [ endpoint |-> ep,
        percentage |-> ratio(Cardinality({d \in tracker : slot_endpoint(d, slot) = Some(ep)}),
                             Cardinality(tracker)) ] :
      ep \in {e \in Names : \E d \in tracker : slot_endpoint(d, slot) = Some(e)} }

\* what print_global_statistics reports for a content of the global tracker
global_statistics(tracker) ==
    LET qualifying == {d \in tracker : both_streams(d)}
    IN  [ tracked |-> Cardinality(tracker),
          account_endpoint_wins |-> endpoint_wins(tracker, "account"),
          tx_endpoint_wins |-> endpoint_wins(tracker, "transaction"),
          both_received |-> Cardinality(qualifying),
          timing_diffs |-> sorted_by(qualifying, [d \in qualifying |-> global_diff(d)]),
          timing |-> timing_section(qualifying,
                        sorted_by(qualifying, [d \in qualifying |-> global_diff(d)])) ]

\* what print_stream_statistics prints for a local tracker: the whole report,
\* its head included, is inside `if both_received > 0`, so nothing is printed
\* (None) when no record holds both timestamps
stream_statistics(latencies) ==
    LET qualifying == {d \in latencies : both_streams(d)}
    IN  IF has_data(Cardinality(qualifying))
        THEN Some([ tracked |-> Cardinality(latencies),
                    account_endpoint_wins |-> {},
                    tx_endpoint_wins |-> {},
                    both_received |-> Cardinality(qualifying),
                    timing_diffs |-> sorted_by(qualifying,
                                        [d \in qualifying |-> stream_diff(d)]),
                    timing |-> timing_section(qualifying,
                                  sorted_by(qualifying,
                                      [d \in qualifying |-> stream_diff(d)])) ])
        ELSE None

\* ---------------------------------------------------------------- shutdown channel
\* receivers that are still alive: a runner owns its receiver until its task returns
LiveReceivers_WhileSelecting == {r \in endpoints : pc[r] = "Streaming"}
LiveReceivers == {r \in endpoints : pc[r] \notin {"Terminated", "Failed", "Panicked"}}

\* broadcast::Sender::send(()): every live receiver gets the signal
send_Missed == shutdown_rx \cup {r \in LiveReceivers : pc[r] # "Connecting"}
send == shutdown_rx \cup LiveReceivers

\* broadcast::Sender::send returns Err exactly when no receiver is alive, and
\* the runner unwraps the result
send_is_err == LiveReceivers = {}

\* ---------------------------------------------------------------- mutexes
\* the two std::sync::Mutex of the run
Locks == {"comparator", "tracker"}

\* some task holds a MutexGuard of the lock
is_locked(l) == \E r \in Names : l \in guards[r]

\* the guards of a task after the scope of its guard of l has ended
drop_guard_Leak(g, l) == g
drop_guard_AtArmEnd(g, l) == IF l = "tracker" THEN g ELSE g \ {l}
drop_guard(g, l) == g \ {l}

\* lock().unwrap() up to the end of the guard's scope, all within one step of r
critical_section(r, l) ==
    /\ ~ is_locked(l)
    /\ guards' = [guards EXCEPT ![r] = drop_guard(@ \cup {l}, l)]

\* the lock the next step of r starts by taking, if any
lock_wanted(r) ==
    IF r \in YsNames /\ pc[r] \in {"TxGlobal", "AcctGlobal", "Stats"} THEN Some("tracker")
    ELSE IF r \in YsNames /\ pc[r] = "TxComp" THEN Some("comparator")
    ELSE IF r \in ShredNames /\ pc[r] = "EntryAdd" THEN Some("comparator")
    ELSE IF r \in ShredNames /\ pc[r] = "Entry" /\ pending[r] = << >>
         THEN Some("comparator")
    ELSE None

\* ---------------------------------------------------------------- initial state
InitRun(configs, messages) ==
    /\ endpoints \in configs
    /\ transactions \in 1..MaxTarget
    /\ pc = [r \in Names |-> IF r \in endpoints THEN "Connecting" ELSE "Off"]
    /\ cur = [r \in Names |-> NoMsg]
    /\ pending = [r \in ShredNames |-> << >>]
    /\ stream_latencies = [r \in YsNames |-> {}]
    /\ transaction_count = [r \in Names |-> 0]
    /\ account_update_count = [r \in YsNames |-> 0]
    /\ GLOBAL_ACCOUNT_TRACKER = {}
    /\ comparator = {}
    /\ SHUTDOWN_COUNT = 0
    /\ shutdown_rx = {}
    /\ now = 0
    /\ budget = messages
    /\ shutdown_sends = 0
    /\ stats_calls = 0
    /\ submitted = {}
    /\ observed = {}
    /\ cause = [r \in Names |-> "none"]
    /\ in_hand = [r \in Names |-> "none"]
    /\ guards = [r \in Names |-> {}]
    /\ stream_report = [r \in YsNames |-> None]
    /\ global_report = None

InitWith(configs) == InitRun(configs, MaxMsgs)

Init == InitWith(Configs)
InitAll == InitWith(ConfigsAll)
\* the same runs as Init, and the runs of a single dual-stream endpoint that
\* is delivered one message more
InitLong == Init \/ InitRun({ {"ysA"} }, MaxMsgs + 1)

\* the number of account updates of a runner whose log line is written
\* (`if account_update_count <= 10`)
LoggedUpdates == 10

\* variables no step of a runner changes
config_vars == << endpoints, transactions >>
\* what the reporters printed
report_vars == << stream_report, global_report >>

\* ---------------------------------------------------------------- dual-stream runner
\* open_log_file, connect, subscribe and the subscribe request: any of them may
\* fail, and `?` then returns the error from the task
YsConnect(r) ==
    /\ pc[r] = "Connecting"
    /\ \E ok \in BOOLEAN :
          /\ pc' = [pc EXCEPT ![r] = IF ok THEN "Streaming" ELSE "Failed"]
          /\ cause' = IF ok THEN cause ELSE [cause EXCEPT ![r] = "connect_error"]
    /\ UNCHANGED << config_vars, account_update_count, report_vars, cur, pending, stream_latencies, transaction_count,
                    GLOBAL_ACCOUNT_TRACKER, comparator, SHUTDOWN_COUNT, shutdown_rx,
                    now, budget, shutdown_sends, stats_calls, submitted, observed,
                    in_hand, guards >>

\* select!: shutdown_rx.recv() resolves; break
YsRecvShutdown_Preempt(r) ==
    /\ pc[r] \in {"Streaming", "TxComp"}
    /\ r \in shutdown_rx
    /\ pc' = [pc EXCEPT ![r] = "Exited"]
    /\ shutdown_rx' = shutdown_rx \ {r}
    /\ cause' = [cause EXCEPT ![r] = "shutdown"]
    /\ in_hand' = [in_hand EXCEPT ![r] = "none"]
    /\ cur' = [cur EXCEPT ![r] = NoMsg]
    /\ UNCHANGED << config_vars, account_update_count, report_vars, pending, stream_latencies, transaction_count,
                    GLOBAL_ACCOUNT_TRACKER, comparator, SHUTDOWN_COUNT,
                    now, budget, shutdown_sends, stats_calls, submitted, observed,
                    guards >>
YsRecvShutdown_DuringReply(r) ==
    /\ pc[r] \in {"Streaming", "PingReply"}
    /\ r \in shutdown_rx
    /\ pc' = [pc EXCEPT ![r] = "Exited"]
    /\ shutdown_rx' = shutdown_rx \ {r}
    /\ cause' = [cause EXCEPT ![r] = "shutdown"]
    /\ in_hand' = [in_hand EXCEPT ![r] = "none"]
    /\ cur' = [cur EXCEPT ![r] = NoMsg]
    /\ UNCHANGED << config_vars, account_update_count, report_vars, pending, stream_latencies, transaction_count,
                    GLOBAL_ACCOUNT_TRACKER, comparator, SHUTDOWN_COUNT,
                    now, budget, shutdown_sends, stats_calls, submitted, observed,
                    guards >>
YsRecvShutdown(r) ==
    /\ pc[r] = "Streaming"
    /\ r \in shutdown_rx
    /\ pc' = [pc EXCEPT ![r] = "Exited"]
    /\ shutdown_rx' = shutdown_rx \ {r}
    /\ cause' = [cause EXCEPT ![r] = "shutdown"]
    /\ UNCHANGED << config_vars, account_update_count, report_vars, cur, pending, stream_latencies, transaction_count,
                    GLOBAL_ACCOUNT_TRACKER, comparator, SHUTDOWN_COUNT,
                    now, budget, shutdown_sends, stats_calls, submitted, observed,
                    in_hand, guards >>

\* select!: a transaction update that names the watched account; the timestamp
\* is taken and the local tracker updated
YsRecvTransaction(r) ==
    /\ pc[r] = "Streaming"
    /\ budget > 0
    /\ \E sig \in Sigs, ts \in ClockReadings :
          /\ now' = ts
          /\ cur' = [cur EXCEPT ![r] = [signature |-> sig, timestamp |-> ts]]
          /\ stream_latencies' =
                [stream_latencies EXCEPT ![r] = LocalTransaction(@, sig, ts, r)]
    /\ budget' = budget - 1
    /\ pc' = [pc EXCEPT ![r] = "TxGlobal"]
    /\ in_hand' = [in_hand EXCEPT ![r] = "transaction"]
    /\ UNCHANGED << config_vars, account_update_count, report_vars, pending, transaction_count, GLOBAL_ACCOUNT_TRACKER,
                    comparator, SHUTDOWN_COUNT, shutdown_rx, shutdown_sends,
                    stats_calls, submitted, observed, cause, guards >>

\* select!: a transaction update the arm cannot unwrap: its inner transaction
\* or its message is None (whatever accounts it would name), or it names the
\* watched account and carries no signature (signatures[0]).  The task panics:
\* it neither returns nor reaches the fetch_add, and its receiver is dropped.
YsRecvTransactionPanic(r) ==
    /\ pc[r] = "Streaming"
    /\ budget > 0
    /\ budget' = budget - 1
    /\ pc' = [pc EXCEPT ![r] = "Panicked"]
    /\ cause' = [cause EXCEPT ![r] = "panic"]
    /\ UNCHANGED << config_vars, account_update_count, report_vars, cur, pending, stream_latencies, transaction_count,
                    GLOBAL_ACCOUNT_TRACKER, comparator, SHUTDOWN_COUNT, shutdown_rx,
                    now, shutdown_sends, stats_calls, submitted, observed,
                    in_hand, guards >>

\* the global tracker's critical section for a transaction; the guard is
\* dropped at the end of the block
YsTxGlobal(r) ==
    /\ pc[r] = "TxGlobal"
    /\ critical_section(r, "tracker")
    /\ GLOBAL_ACCOUNT_TRACKER' =
          GlobalTransaction(GLOBAL_ACCOUNT_TRACKER, cur[r].signature, cur[r].timestamp, r)
    /\ submitted' = submitted \cup
          {[signature |-> cur[r].signature, slot |-> "transaction",
            timestamp |-> cur[r].timestamp, endpoint |-> r]}
    /\ pc' = [pc EXCEPT ![r] = "TxLog"]
    /\ UNCHANGED << config_vars, account_update_count, report_vars, cur, pending, stream_latencies, transaction_count,
                    comparator, SHUTDOWN_COUNT, shutdown_rx, now, budget,
                    shutdown_sends, stats_calls, observed, cause, in_hand >>

\* write_log_entry(..)? for the transaction, no lock held: its failure returns
\* the error from the task
YsTxLog(r) ==
    /\ pc[r] = "TxLog"
    /\ \E ok \in BOOLEAN :
          /\ pc' = [pc EXCEPT ![r] = IF ok THEN "TxComp" ELSE "Failed"]
          /\ cur' = IF ok THEN cur ELSE [cur EXCEPT ![r] = NoMsg]
          /\ cause' = IF ok THEN cause ELSE [cause EXCEPT ![r] = "log_error"]
          /\ in_hand' = IF ok THEN in_hand ELSE [in_hand EXCEPT ![r] = "none"]
    /\ UNCHANGED << config_vars, account_update_count, report_vars, pending, stream_latencies, transaction_count,
                    GLOBAL_ACCOUNT_TRACKER, comparator, SHUTDOWN_COUNT, shutdown_rx,
                    now, budget, shutdown_sends, stats_calls, submitted, observed,
                    guards >>

\* the comparator handed the observation of the runner
YsAdd_Skip(cmp, r, sig, ts) == cmp
YsAdd(cmp, r, sig, ts) == add(cmp, r, TransactionData(sig, ts))

\* the comparator's critical section: add, then the target check under the same
\* lock; on the target print_stream_statistics, send(()).unwrap() and break
YsTxComp(r) ==
    /\ pc[r] = "TxComp"
    /\ critical_section(r, "comparator")
    /\ LET cmp == YsAdd(comparator, r, cur[r].signature, cur[r].timestamp)
       IN  /\ comparator' = cmp
           /\ observed' = observed \cup {[endpoint |-> r, signature |-> cur[r].signature]}
           /\ IF get_valid_count(cmp) = transactions
              THEN /\ stream_report' = [stream_report EXCEPT ![r] =
                                            stream_statistics(stream_latencies[r])]
                   /\ shutdown_sends' = shutdown_sends + 1
                   /\ IF send_is_err
                      THEN /\ pc' = [pc EXCEPT ![r] = "Panicked"]
                           /\ cause' = [cause EXCEPT ![r] = "send_panic"]
                           /\ UNCHANGED shutdown_rx
                      ELSE /\ pc' = [pc EXCEPT ![r] = "Exited"]
                           /\ cause' = [cause EXCEPT ![r] = "target"]
                           /\ shutdown_rx' = send
                   /\ UNCHANGED transaction_count
              ELSE /\ transaction_count' = [transaction_count EXCEPT ![r] = @ + 1]
                   /\ pc' = [pc EXCEPT ![r] = "Streaming"]
                   /\ UNCHANGED << shutdown_rx, shutdown_sends, cause, stream_report >>
    /\ cur' = [cur EXCEPT ![r] = NoMsg]
    /\ in_hand' = [in_hand EXCEPT ![r] = "none"]
    /\ UNCHANGED << config_vars, account_update_count, global_report, pending, stream_latencies,
                    GLOBAL_ACCOUNT_TRACKER, SHUTDOWN_COUNT, now, budget,
                    stats_calls, submitted >>

\* select!: an account update carrying a transaction signature; the update is
\* counted, the timestamp taken and the local tracker updated
YsRecvAccount(r) ==
    /\ pc[r] = "Streaming"
    /\ budget > 0
    /\ account_update_count' = [account_update_count EXCEPT ![r] = @ + 1]
    /\ \E sig \in Sigs, ts \in ClockReadings :
          /\ now' = ts
          /\ cur' = [cur EXCEPT ![r] = [signature |-> sig, timestamp |-> ts]]
          /\ stream_latencies' =
                [stream_latencies EXCEPT ![r] = LocalAccount(@, sig, ts, r)]
    /\ budget' = budget - 1
    /\ pc' = [pc EXCEPT ![r] = "AcctGlobal"]
    /\ in_hand' = [in_hand EXCEPT ![r] = "account"]
    /\ UNCHANGED << config_vars, report_vars, pending, transaction_count, GLOBAL_ACCOUNT_TRACKER,
                    comparator, SHUTDOWN_COUNT, shutdown_rx, shutdown_sends,
                    stats_calls, submitted, observed, cause, guards >>

\* select!: an account update carrying a transaction signature whose base58
\* signature or account key is shorter than 8 characters, with the Info level
\* of the logger enabled: the slices &account_key[0..8] and &signature[0..8] of
\* the log line panic the task before anything is recorded.  The log line is
\* evaluated only for the first LoggedUpdates account updates of the runner.
\* (With the level disabled, or a later update, the update is handled as in
\* YsRecvAccount.)
YsRecvAccountPanic(r) ==
    /\ pc[r] = "Streaming"
    /\ budget > 0
    /\ account_update_count[r] + 1 <= LoggedUpdates
    /\ account_update_count' = [account_update_count EXCEPT ![r] = @ + 1]
    /\ budget' = budget - 1
    /\ pc' = [pc EXCEPT ![r] = "Panicked"]
    /\ cause' = [cause EXCEPT ![r] = "panic"]
    /\ UNCHANGED << config_vars, report_vars, cur, pending, stream_latencies, transaction_count,
                    GLOBAL_ACCOUNT_TRACKER, comparator, SHUTDOWN_COUNT, shutdown_rx,
                    now, shutdown_sends, stats_calls, submitted, observed,
                    in_hand, guards >>

\* the global tracker's critical section for an account update; the guard is
\* dropped at the end of the block
YsAcctGlobal_Add(r) ==
    /\ pc[r] = "AcctGlobal"
    /\ critical_section(r, "tracker")
    /\ GLOBAL_ACCOUNT_TRACKER' =
          GlobalAccount(GLOBAL_ACCOUNT_TRACKER, cur[r].signature, cur[r].timestamp, r)
    /\ submitted' = submitted \cup
          {[signature |-> cur[r].signature, slot |-> "account",
            timestamp |-> cur[r].timestamp, endpoint |-> r]}
    /\ comparator' = YsAdd(comparator, r, cur[r].signature, cur[r].timestamp)
    /\ pc' = [pc EXCEPT ![r] = "AcctLog"]
    /\ UNCHANGED << config_vars, account_update_count, report_vars, cur, pending, stream_latencies, transaction_count,
                    SHUTDOWN_COUNT, shutdown_rx, now, budget,
                    shutdown_sends, stats_calls, observed, cause, in_hand >>
YsAcctGlobal(r) ==
    /\ pc[r] = "AcctGlobal"
    /\ critical_section(r, "tracker")
    /\ GLOBAL_ACCOUNT_TRACKER' =
          GlobalAccount(GLOBAL_ACCOUNT_TRACKER, cur[r].signature, cur[r].timestamp, r)
    /\ submitted' = submitted \cup
          {[signature |-> cur[r].signature, slot |-> "account",
            timestamp |-> cur[r].timestamp, endpoint |-> r]}
    /\ pc' = [pc EXCEPT ![r] = "AcctLog"]
    /\ UNCHANGED << config_vars, account_update_count, report_vars, cur, pending, stream_latencies, transaction_count,
                    comparator, SHUTDOWN_COUNT, shutdown_rx, now, budget,
                    shutdown_sends, stats_calls, observed, cause, in_hand >>

\* the log line after the log write is evaluated: the local record of the
\* signature has a transaction timestamp.  Its slice &signature[0..8] panics
\* when the signature is shorter than 8 characters and the Info level enabled,
\* which the log line of the first LoggedUpdates updates would have done first.
slice_may_panic(r) ==
    /\ account_update_count[r] > LoggedUpdates
    /\ has_key(stream_latencies[r], cur[r].signature)
    /\ get(stream_latencies[r], cur[r].signature).transaction_timestamp # None

\* write_log_entry(..)? for the account update, no lock held: its failure
\* returns the error from the task; then the "Dual stream matched" log line,
\* which may panic the task; otherwise the arm ends
YsAcctLog(r) ==
    /\ pc[r] = "AcctLog"
    /\ \E outcome \in {"ok", "log_error", "panic"} :
          /\ outcome = "panic" => slice_may_panic(r)
          /\ pc' = [pc EXCEPT ![r] = IF outcome = "ok" THEN "Streaming"
                                     ELSE IF outcome = "log_error" THEN "Failed"
                                     ELSE "Panicked"]
          /\ cause' = IF outcome = "ok" THEN cause ELSE [cause EXCEPT ![r] = outcome]
    /\ cur' = [cur EXCEPT ![r] = NoMsg]
    /\ in_hand' = [in_hand EXCEPT ![r] = "none"]
    /\ UNCHANGED << config_vars, account_update_count, report_vars, pending, stream_latencies, transaction_count,
                    GLOBAL_ACCOUNT_TRACKER, comparator, SHUTDOWN_COUNT, shutdown_rx,
                    now, budget, shutdown_sends, stats_calls, submitted, observed,
                    guards >>

\* select!: a ping; the reply is awaited
YsRecvPing(r) ==
    /\ pc[r] = "Streaming"
    /\ budget > 0
    /\ budget' = budget - 1
    /\ pc' = [pc EXCEPT ![r] = "PingReply"]
    /\ in_hand' = [in_hand EXCEPT ![r] = "ping"]
    /\ UNCHANGED << config_vars, account_update_count, report_vars, cur, pending, stream_latencies, transaction_count,
                    GLOBAL_ACCOUNT_TRACKER, comparator, SHUTDOWN_COUNT, shutdown_rx,
                    now, shutdown_sends, stats_calls, submitted, observed,
                    cause, guards >>

\* subscribe_tx.send(ping).await?
YsPingReply(r) ==
    /\ pc[r] = "PingReply"
    /\ \E ok \in BOOLEAN :
          /\ pc' = [pc EXCEPT ![r] = IF ok THEN "Streaming" ELSE "Failed"]
          /\ cause' = IF ok THEN cause ELSE [cause EXCEPT ![r] = "ping_error"]
    /\ in_hand' = [in_hand EXCEPT ![r] = "none"]
    /\ UNCHANGED << config_vars, account_update_count, report_vars, cur, pending, stream_latencies, transaction_count,
                    GLOBAL_ACCOUNT_TRACKER, comparator, SHUTDOWN_COUNT, shutdown_rx,
                    now, budget, shutdown_sends, stats_calls, submitted, observed,
                    guards >>

\* select!: an account update without a transaction signature: it is counted
\* and nothing else happens
YsRecvAccountNoSignature(r) ==
    /\ pc[r] = "Streaming"
    /\ budget > 0
    /\ account_update_count' = [account_update_count EXCEPT ![r] = @ + 1]
    /\ budget' = budget - 1
    /\ UNCHANGED << config_vars, report_vars, pc, cur, pending, stream_latencies,
                    transaction_count, GLOBAL_ACCOUNT_TRACKER, comparator, SHUTDOWN_COUNT,
                    shutdown_rx, now, shutdown_sends, stats_calls, submitted, observed,
                    cause, in_hand, guards >>

\* select!: any other update (another update type, an empty update, a transaction
\* that does not name the watched account, an account update without account)
YsRecvOther(r) ==
    /\ pc[r] = "Streaming"
    /\ budget > 0
    /\ budget' = budget - 1
    /\ UNCHANGED << config_vars, account_update_count, report_vars, pc, cur, pending, stream_latencies, transaction_count,
                    GLOBAL_ACCOUNT_TRACKER, comparator, SHUTDOWN_COUNT, shutdown_rx,
                    now, shutdown_sends, stats_calls, submitted, observed,
                    cause, in_hand, guards, stream_report, global_report >>

\* select!: Some(Err(e)) or None; break
YsStreamEnd_Escalate(r) ==
    /\ pc[r] = "Streaming"
    /\ pc' = [pc EXCEPT ![r] = "Exited"]
    /\ cause' = [cause EXCEPT ![r] = "stream_end"]
    /\ shutdown_rx' = send
    /\ shutdown_sends' = shutdown_sends + 1
    /\ UNCHANGED << config_vars, account_update_count, report_vars, cur, pending, stream_latencies, transaction_count,
                    GLOBAL_ACCOUNT_TRACKER, comparator, SHUTDOWN_COUNT,
                    now, budget, stats_calls, submitted, observed,
                    in_hand, guards >>
YsStreamEnd(r) ==
    /\ pc[r] = "Streaming"
    /\ pc' = [pc EXCEPT ![r] = "Exited"]
    /\ cause' = [cause EXCEPT ![r] = "stream_end"]
    /\ UNCHANGED << config_vars, account_update_count, report_vars, cur, pending, stream_latencies, transaction_count,
                    GLOBAL_ACCOUNT_TRACKER, comparator, SHUTDOWN_COUNT, shutdown_rx,
                    now, budget, shutdown_sends, stats_calls, submitted, observed,
                    in_hand, guards >>

\* the previous value of SHUTDOWN_COUNT that makes the runner print the statistics
LastRunnerSeen_Zero(prev) == prev = 0
LastRunnerSeen_AtLeastOne(prev) == prev >= 1
LastRunnerSeen(prev) == prev = 1

\* after the loop: SHUTDOWN_COUNT.fetch_add(1, SeqCst)
YsFetchAdd(r) ==
    /\ pc[r] = "Exited"
    /\ SHUTDOWN_COUNT' = SHUTDOWN_COUNT + 1
    /\ pc' = [pc EXCEPT ![r] = IF LastRunnerSeen(SHUTDOWN_COUNT) THEN "Stats"
                                                               ELSE "Terminated"]
    /\ UNCHANGED << config_vars, account_update_count, report_vars, cur, pending, stream_latencies, transaction_count,
                    GLOBAL_ACCOUNT_TRACKER, comparator, shutdown_rx,
                    now, budget, shutdown_sends, stats_calls, submitted, observed,
                    cause, in_hand, guards, stream_report, global_report >>

\* print_global_statistics(): locks and reads the global tracker; Ok(()) follows
print_global_statistics(r) ==
    /\ pc[r] = "Stats"
    /\ critical_section(r, "tracker")
    /\ stats_calls' = stats_calls + 1
    /\ global_report' = Some(global_statistics(GLOBAL_ACCOUNT_TRACKER))
    /\ pc' = [pc EXCEPT ![r] = "Terminated"]
    /\ UNCHANGED << config_vars, account_update_count, stream_report, cur, pending, stream_latencies, transaction_count,
                    GLOBAL_ACCOUNT_TRACKER, comparator, SHUTDOWN_COUNT, shutdown_rx,
                    now, budget, shutdown_sends, submitted, observed,
                    cause, in_hand >>

\* ---------------------------------------------------------------- bundled-entry runner
\* open_log_file, connect, subscribe_entries
ShredConnect(r) ==
    /\ pc[r] = "Connecting"
    /\ \E ok \in BOOLEAN :
          /\ pc' = [pc EXCEPT ![r] = IF ok THEN "Streaming" ELSE "Failed"]
          /\ cause' = IF ok THEN cause ELSE [cause EXCEPT ![r] = "connect_error"]
    /\ UNCHANGED << config_vars, account_update_count, report_vars, cur, pending, stream_latencies, transaction_count,
                    GLOBAL_ACCOUNT_TRACKER, comparator, SHUTDOWN_COUNT, shutdown_rx,
                    now, budget, shutdown_sends, stats_calls, submitted, observed,
                    in_hand, guards >>

\* select!: shutdown_rx.recv() resolves; break, Ok(())
ShredRecvShutdown(r) ==
    /\ pc[r] = "Streaming"
    /\ r \in shutdown_rx
    /\ pc' = [pc EXCEPT ![r] = "Terminated"]
    /\ shutdown_rx' = shutdown_rx \ {r}
    /\ cause' = [cause EXCEPT ![r] = "shutdown"]
    /\ UNCHANGED << config_vars, account_update_count, report_vars, cur, pending, stream_latencies, transaction_count,
                    GLOBAL_ACCOUNT_TRACKER, comparator, SHUTDOWN_COUNT,
                    now, budget, shutdown_sends, stats_calls, submitted, observed,
                    in_hand, guards >>

\* a transaction that names the watched account and carries no signature
NoSignature == "unsigned"

\* the transactions of one entry that name the watched account, by signature.
\* One without signatures panics the task, so nothing after it is ever looked at:
\* it is the last of its bundle.
Bundles ==
    LET signed == UNION { [1..n -> Sigs] : n \in 0..MaxBundle }
    IN  signed \cup {Append(txs, NoSignature) : txs \in {x \in signed : Len(x) < MaxBundle}}

\* select!: Some(Ok(entry)) whose payload deserializes
ShredRecvEntry(r) ==
    /\ pc[r] = "Streaming"
    /\ budget > 0
    /\ budget' = budget - 1
    /\ \E txs \in Bundles : pending' = [pending EXCEPT ![r] = txs]
    /\ pc' = [pc EXCEPT ![r] = "Entry"]
    /\ in_hand' = [in_hand EXCEPT ![r] = "entry"]
    /\ UNCHANGED << config_vars, account_update_count, report_vars, cur, stream_latencies, transaction_count,
                    GLOBAL_ACCOUNT_TRACKER, comparator, SHUTDOWN_COUNT, shutdown_rx,
                    now, shutdown_sends, stats_calls, submitted, observed,
                    cause, guards >>

\* select!: Some(Ok(entry)) whose payload does not deserialize: process_entry
\* logs and returns Ok(())
ShredRecvUndecodable(r) ==
    /\ pc[r] = "Streaming"
    /\ budget > 0
    /\ budget' = budget - 1
    /\ pending' = [pending EXCEPT ![r] = << >>]
    /\ pc' = [pc EXCEPT ![r] = "Entry"]
    /\ in_hand' = [in_hand EXCEPT ![r] = "undecodable"]
    /\ UNCHANGED << config_vars, account_update_count, report_vars, cur, stream_latencies, transaction_count,
                    GLOBAL_ACCOUNT_TRACKER, comparator, SHUTDOWN_COUNT, shutdown_rx,
                    now, shutdown_sends, stats_calls, submitted, observed,
                    cause, guards >>

\* the comparator handed the observation of the runner
ShredAdd(cmp, r, sig, ts) == add(cmp, r, TransactionData(sig, ts))

\* process_entry, the next matching transaction: get_current_timestamp(), then
\* signatures[0], which panics the task when the transaction has no signature
ShredTimestamp(r) ==
    /\ pc[r] = "Entry"
    /\ pending[r] # << >>
    /\ \E ts \in ClockReadings :
          /\ now' = ts
          /\ IF Head(pending[r]) = NoSignature
             THEN /\ pc' = [pc EXCEPT ![r] = "Panicked"]
                  /\ cause' = [cause EXCEPT ![r] = "panic"]
                  /\ UNCHANGED cur
             ELSE /\ pc' = [pc EXCEPT ![r] = "EntryLog"]
                  /\ cur' = [cur EXCEPT ![r] = [signature |-> Head(pending[r]),
                                                timestamp |-> ts]]
                  /\ UNCHANGED cause
    /\ pending' = [pending EXCEPT ![r] = Tail(@)]
    /\ UNCHANGED << config_vars, account_update_count, report_vars, stream_latencies, transaction_count,
                    GLOBAL_ACCOUNT_TRACKER, comparator, SHUTDOWN_COUNT, shutdown_rx,
                    budget, shutdown_sends, stats_calls, submitted, observed,
                    in_hand, guards >>

\* write_log_entry(..)? of process_entry, no lock held: its failure returns the
\* error from process_entry and from the task
ShredLog(r) ==
    /\ pc[r] = "EntryLog"
    /\ \E ok \in BOOLEAN :
          /\ pc' = [pc EXCEPT ![r] = IF ok THEN "EntryAdd" ELSE "Failed"]
          /\ cur' = IF ok THEN cur ELSE [cur EXCEPT ![r] = NoMsg]
          /\ cause' = IF ok THEN cause ELSE [cause EXCEPT ![r] = "log_error"]
          /\ in_hand' = IF ok THEN in_hand ELSE [in_hand EXCEPT ![r] = "none"]
    /\ UNCHANGED << config_vars, account_update_count, report_vars, pending, stream_latencies, transaction_count,
                    GLOBAL_ACCOUNT_TRACKER, comparator, SHUTDOWN_COUNT, shutdown_rx,
                    now, budget, shutdown_sends, stats_calls, submitted, observed,
                    guards >>

\* process_entry: comparator.lock(), add with the timestamp taken before the
\* log write, transaction_count += 1; the guard is dropped with the iteration
ShredProcessTx(r) ==
    /\ pc[r] = "EntryAdd"
    /\ critical_section(r, "comparator")
    /\ comparator' = ShredAdd(comparator, r, cur[r].signature, cur[r].timestamp)
    /\ observed' = observed \cup {[endpoint |-> r, signature |-> cur[r].signature]}
    /\ transaction_count' = [transaction_count EXCEPT ![r] = @ + 1]
    /\ cur' = [cur EXCEPT ![r] = NoMsg]
    /\ pc' = [pc EXCEPT ![r] = "Entry"]
    /\ UNCHANGED << config_vars, account_update_count, report_vars, pending, stream_latencies,
                    GLOBAL_ACCOUNT_TRACKER, SHUTDOWN_COUNT, shutdown_rx, now, budget,
                    shutdown_sends, stats_calls, submitted, cause, in_hand >>

\* after process_entry returned: the comparator is locked again and the target
\* checked; on the target send(()).unwrap(), break, Ok(())
ShredCheck(r) ==
    /\ pc[r] = "Entry"
    /\ pending[r] = << >>
    /\ critical_section(r, "comparator")
    /\ IF get_valid_count(comparator) = transactions
       THEN /\ shutdown_sends' = shutdown_sends + 1
            /\ IF send_is_err
               THEN /\ pc' = [pc EXCEPT ![r] = "Panicked"]
                    /\ cause' = [cause EXCEPT ![r] = "send_panic"]
                    /\ UNCHANGED shutdown_rx
               ELSE /\ pc' = [pc EXCEPT ![r] = "Terminated"]
                    /\ cause' = [cause EXCEPT ![r] = "target"]
                    /\ shutdown_rx' = send
       ELSE /\ pc' = [pc EXCEPT ![r] = "Streaming"]
            /\ UNCHANGED << shutdown_rx, shutdown_sends, cause >>
    /\ in_hand' = [in_hand EXCEPT ![r] = "none"]
    /\ UNCHANGED << config_vars, account_update_count, report_vars, cur, pending, stream_latencies, transaction_count,
                    GLOBAL_ACCOUNT_TRACKER, comparator, SHUTDOWN_COUNT,
                    now, budget, stats_calls, submitted, observed >>

\* select!: the stream ended or returned an error; break, Ok(())
ShredStreamEnd_Err(r) ==
    /\ pc[r] = "Streaming"
    /\ pc' = [pc EXCEPT ![r] = "Failed"]
    /\ cause' = [cause EXCEPT ![r] = "stream_end"]
    /\ UNCHANGED << config_vars, account_update_count, report_vars, cur, pending, stream_latencies, transaction_count,
                    GLOBAL_ACCOUNT_TRACKER, comparator, SHUTDOWN_COUNT, shutdown_rx,
                    now, budget, shutdown_sends, stats_calls, submitted, observed,
                    in_hand, guards >>
ShredStreamEnd(r) ==
    /\ pc[r] = "Streaming"
    /\ pc' = [pc EXCEPT ![r] = "Terminated"]
    /\ cause' = [cause EXCEPT ![r] = "stream_end"]
    /\ UNCHANGED << config_vars, account_update_count, report_vars, cur, pending, stream_latencies, transaction_count,
                    GLOBAL_ACCOUNT_TRACKER, comparator, SHUTDOWN_COUNT, shutdown_rx,
                    now, budget, shutdown_sends, stats_calls, submitted, observed,
                    in_hand, guards >>

\* ---------------------------------------------------------------- specification
Next ==
    \/ \E r \in YsNames : YsConnect(r)
    \/ \E r \in YsNames : YsRecvShutdown(r)
    \/ \E r \in YsNames : YsRecvTransaction(r)
    \/ \E r \in YsNames : YsRecvTransactionPanic(r)
    \/ \E r \in YsNames : YsTxGlobal(r)
    \/ \E r \in YsNames : YsTxLog(r)
    \/ \E r \in YsNames : YsTxComp(r)
    \/ \E r \in YsNames : YsRecvAccount(r)
    \/ \E r \in YsNames : YsRecvAccountPanic(r)
    \/ \E r \in YsNames : YsAcctGlobal(r)
    \/ \E r \in YsNames : YsAcctLog(r)
    \/ \E r \in YsNames : YsRecvPing(r)
    \/ \E r \in YsNames : YsPingReply(r)
    \/ \E r \in YsNames : YsRecvAccountNoSignature(r)
    \/ \E r \in YsNames : YsRecvOther(r)
    \/ \E r \in YsNames : YsStreamEnd(r)
    \/ \E r \in YsNames : YsFetchAdd(r)
    \/ \E r \in YsNames : print_global_statistics(r)
    \/ \E r \in ShredNames : ShredConnect(r)
    \/ \E r \in ShredNames : ShredRecvShutdown(r)
    \/ \E r \in ShredNames : ShredRecvEntry(r)
    \/ \E r \in ShredNames : ShredRecvUndecodable(r)
    \/ \E r \in ShredNames : ShredTimestamp(r)
    \/ \E r \in ShredNames : ShredLog(r)
    \/ \E r \in ShredNames : ShredProcessTx(r)
    \/ \E r \in ShredNames : ShredCheck(r)
    \/ \E r \in ShredNames : ShredStreamEnd(r)

Spec == Init /\ [][Next]_vars

\* runs that may also be configured with three dual-stream endpoints
SpecAll == InitAll /\ [][Next]_vars

\* runs of up to three dual-stream endpoints that are delivered one message
\* fewer: every way of leaving the loop, in every order of the exits
InitExits == InitRun(ConfigsAll, MaxMsgs - 1)
SpecExits == InitExits /\ [][Next]_vars

\* runs in which a single dual-stream endpoint may get one message more
SpecLong == InitLong /\ [][Next]_vars

\* the steps a task takes by itself once it is scheduled: everything but the
\* arrival of a stream message or of the end of the stream, which is up to the
\* provider.  select! picks among its ready branches at random, so a pending
\* shutdown signal is eventually taken by a runner that keeps returning to it.
Progress(r) ==
    \/ r \in YsNames /\ \/ YsConnect(r) \/ YsRecvShutdown(r) \/ YsTxGlobal(r)
                        \/ YsTxLog(r) \/ YsTxComp(r) \/ YsAcctGlobal(r)
                        \/ YsAcctLog(r) \/ YsPingReply(r)
                        \/ YsFetchAdd(r) \/ print_global_statistics(r)
    \/ r \in ShredNames /\ \/ ShredConnect(r) \/ ShredRecvShutdown(r)
                           \/ ShredTimestamp(r) \/ ShredLog(r)
                           \/ ShredProcessTx(r) \/ ShredCheck(r)

\* the runs in which every task keeps being scheduled
FairSpec == Spec /\ \A r \in Names : WF_vars(Progress(r))

\* ================================================================ properties
\* the task of r has ended: it returned Ok(()) or an error, or it panicked
Done(r) == pc[r] \in {"Terminated", "Failed", "Panicked"}
AllDone == \A r \in endpoints : Done(r)
AllReturnedOk == \A r \in endpoints : pc[r] = "Terminated"

\* the signatures that received at least one observation
ObservedSignatures == {o.signature : o \in observed}

\* r performs its Comparator::add in this step
AddsInStep(r) ==
    \/ r \in YsNames /\ pc[r] = "TxComp" /\ pc'[r] # "TxComp"
    \/ r \in ShredNames /\ pc[r] = "EntryAdd" /\ pc'[r] # "EntryAdd"
\* the signature r is about to add
SigInHand(r) == cur[r].signature
\* the timestamps stored for endpoint ep in the record(s) of sig
StoredTimestamps(cmp, sig, ep) ==
    UNION { { rec.entries[i].timestamp :
                i \in {j \in 1..Len(rec.entries) : rec.entries[j].endpoint = ep} } :
            rec \in {x \in cmp : x.signature = sig} }

\* ---------------------------------------------------------------- C1
\* C1: over a whole run the shutdown trigger fires exactly once, exactly one
\* runner observing the valid count cross N: no run has two sends on the
\* shutdown channel.  (That the trigger fires at all is the statement of C2.)
C1_ShutdownFiresExactlyOnce == shutdown_sends <= 1

\* ---------------------------------------------------------------- C2
\* C2: once the valid count has reached the target N some runner broadcasts the
\* shutdown signal: no run ends, every task having returned Ok, with the count
\* at or above N and no shutdown signal sent.
C2_TargetReachedLeadsToShutdown ==
    (AllReturnedOk /\ get_valid_count(comparator) >= transactions)
        => shutdown_sends >= 1

\* ---------------------------------------------------------------- C3
\* C3: get_valid_count() equals the number of distinct signatures that received
\* at least one observation (one add call), in every interleaving.
C3_ValidCountIsDistinctSignatures ==
    get_valid_count(comparator) = Cardinality(ObservedSignatures)

\* two endpoints have added the same signature: two adds, one signature counted
C3_Witness ==
    /\ Cardinality(observed) = 2
    /\ Cardinality(ObservedSignatures) = 1
    /\ get_valid_count(comparator) = 1

\* ---------------------------------------------------------------- C4
\* C4: an add from an endpoint that already has an entry in the signature's
\* RaceRecord changes neither get_valid_count() nor the timestamp stored for
\* that endpoint, and the runner does not fail on it.
C4_AddIdempotent ==
    [][ \A r \in endpoints :
          (AddsInStep(r) /\ StoredTimestamps(comparator, SigInHand(r), r) # {})
            => /\ get_valid_count(comparator') = get_valid_count(comparator)
               /\ StoredTimestamps(comparator', SigInHand(r), r) =
                     StoredTimestamps(comparator, SigInHand(r), r)
               /\ pc'[r] # "Failed" ]_vars

\* ysA has added S1 twice, first at 0 and then at 1: the record keeps 0 while
\* the local tracker shows the later reading
C4_Witness ==
    /\ transaction_count["ysA"] = 2
    /\ comparator = {[signature |-> "S1",
                      entries |-> << [endpoint |-> "ysA", timestamp |-> 0] >>]}
    /\ \E d \in stream_latencies["ysA"] :
          d.signature = "S1" /\ d.transaction_timestamp = Some(1)

\* ---------------------------------------------------------------- C5
\* C5: get_valid_count() never decreases in any step of any runner.
C5_ValidCountMonotonic ==
    [][ get_valid_count(comparator') >= get_valid_count(comparator) ]_vars

\* the count has grown twice, through adds of two runners
C5_Witness ==
    /\ get_valid_count(comparator) = 2
    /\ Cardinality({o.endpoint : o \in observed}) = 2

\* ---------------------------------------------------------------- C6
\* C6: a signature has at most one RaceRecord and at most one global
\* DualStreamRecord; the RaceRecord of a signature holds exactly one entry for
\* every endpoint that reported it, and the signature counts once.
UniqueBySignature(map) ==
    \A d1 \in map, d2 \in map : d1.signature = d2.signature => d1 = d2
C6_UniqueAndAccumulated ==
    /\ UniqueBySignature(GLOBAL_ACCOUNT_TRACKER)
    /\ UniqueBySignature(comparator)
    /\ \A o \in observed :
          \E rec \in comparator :
             /\ rec.signature = o.signature
             /\ Cardinality({i \in 1..Len(rec.entries) :
                               rec.entries[i].endpoint = o.endpoint}) = 1
             /\ Len(rec.entries) =
                   Cardinality({o2 \in observed : o2.signature = rec.signature})
    /\ get_valid_count(comparator) = Cardinality(ObservedSignatures)

\* two dual-stream endpoints have reported S1: one global record, one
\* RaceRecord with both timestamps, count 1
C6_Witness ==
    /\ \E rec \in comparator :
          /\ rec.signature = "S1"
          /\ {rec.entries[i].endpoint : i \in 1..Len(rec.entries)} = {"ysA", "ysB"}
    /\ \E d \in GLOBAL_ACCOUNT_TRACKER : d.signature = "S1"
    /\ Cardinality({s \in submitted : s.signature = "S1"}) = 2
    /\ get_valid_count(comparator) = 1

\* ---------------------------------------------------------------- C7
\* C7: for every signature and slot the global tracker stores the minimum of
\* the timestamps submitted for that slot, under the name of an endpoint that
\* submitted that minimum; a slot nothing was submitted for stays unset, so
\* the two slots are merged independently.
SubmittedFor(sig, slot) == {s \in submitted : s.signature = sig /\ s.slot = slot}
MinSubmitted(sig, slot) ==
    CHOOSE t \in {s.timestamp : s \in SubmittedFor(sig, slot)} :
        \A s \in SubmittedFor(sig, slot) : t <= s.timestamp
SlotIsMinimum(sig, slot, stored_ts, stored_ep) ==
    IF SubmittedFor(sig, slot) = {}
    THEN stored_ts = None /\ stored_ep = None
    ELSE /\ stored_ts = Some(MinSubmitted(sig, slot))
         /\ \E s \in SubmittedFor(sig, slot) :
               s.timestamp = MinSubmitted(sig, slot) /\ stored_ep = Some(s.endpoint)
C7_MinimumWins ==
    /\ \A s \in submitted : has_key(GLOBAL_ACCOUNT_TRACKER, s.signature)
    /\ \A d \in GLOBAL_ACCOUNT_TRACKER :
          /\ SlotIsMinimum(d.signature, "transaction",
                           d.transaction_timestamp, d.transaction_endpoint)
          /\ SlotIsMinimum(d.signature, "account",
                           d.account_timestamp, d.account_endpoint)

\* two endpoints submitted different timestamps for the transaction slot of S1
\* and the earlier one, ysB's, is stored
C7_Witness ==
    /\ [signature |-> "S1", slot |-> "transaction", timestamp |-> 1,
        endpoint |-> "ysA"] \in submitted
    /\ [signature |-> "S1", slot |-> "transaction", timestamp |-> 0,
        endpoint |-> "ysB"] \in submitted
    /\ \E d \in GLOBAL_ACCOUNT_TRACKER :
          /\ d.signature = "S1"
          /\ d.transaction_timestamp = Some(0)
          /\ d.transaction_endpoint = Some("ysB")

\* ---------------------------------------------------------------- C8
\* the runner has recorded the observation of this slot locally and has not
\* yet merged it into the global tracker
MergePending(r, sig, slot) ==
    /\ cur[r].signature = sig
    /\ \/ slot = "transaction" /\ pc[r] = "TxGlobal"
       \/ slot = "account" /\ pc[r] = "AcctGlobal"
\* the (slot, timestamp) observations a local tracker holds for a signature
LocalObservations(r) ==
    {[signature |-> d.signature, slot |-> "transaction",
      timestamp |-> unwrap(d.transaction_timestamp)] :
        d \in {x \in stream_latencies[r] : x.transaction_timestamp # None}}
    \cup
    {[signature |-> d.signature, slot |-> "account",
      timestamp |-> unwrap(d.account_timestamp)] :
        d \in {x \in stream_latencies[r] : x.account_timestamp # None}}
\* the timestamps the global tracker stores for a slot of a signature
GlobalStored(sig, slot) ==
    UNION { IF slot = "transaction" THEN d.transaction_timestamp
                                    ELSE d.account_timestamp :
            d \in {x \in GLOBAL_ACCOUNT_TRACKER : x.signature = sig} }

\* C8 as stated: in every reachable state the timestamp the global tracker
\* stores for a slot of a signature is <= every observation of that slot any
\* endpoint has recorded locally, the states between the local record and the
\* global merge included.
C8_GlobalAtMostEveryLocal ==
    \A r \in YsNames : \A o \in LocalObservations(r) :
        \A g \in GlobalStored(o.signature, o.slot) : g <= o.timestamp

\* C8 as amended: the global tracker stores a timestamp <= every locally
\* recorded observation whose runner is not between recording it locally and
\* merging it into the global tracker.
C8_GlobalAtMostEveryMerged ==
    \A r \in YsNames : \A o \in LocalObservations(r) :
        ~ MergePending(r, o.signature, o.slot)
          => /\ GlobalStored(o.signature, o.slot) # {}
             /\ \A g \in GlobalStored(o.signature, o.slot) : g <= o.timestamp

\* ysA holds a merged local observation of S1 later than the stored one, which
\* another endpoint submitted
C8_Witness ==
    /\ pc["ysA"] = "TxComp"
    /\ [signature |-> "S1", slot |-> "transaction", timestamp |-> 1]
          \in LocalObservations("ysA")
    /\ \E d \in GLOBAL_ACCOUNT_TRACKER :
          /\ d.signature = "S1"
          /\ d.transaction_timestamp = Some(0)
          /\ d.transaction_endpoint = Some("ysB")

\* ---------------------------------------------------------------- C9
\* print_global_statistics has been entered
StatisticsStarted == stats_calls > 0 \/ \E r \in endpoints : pc[r] = "Stats"

\* C9: in a run with dual-stream endpoints print_global_statistics is invoked
\* exactly once, and only after the last runner task has terminated: never
\* twice, never while another runner has not returned, and it has been invoked
\* once every task has returned Ok.
C9_StatisticsOnceAfterLastRunner ==
    /\ stats_calls <= 1
    /\ \A r \in endpoints :
          pc[r] = "Stats" => \A r2 \in endpoints \ {r} : Done(r2)
    /\ (AllReturnedOk /\ endpoints \cap YsNames # {}) => stats_calls = 1

\* ---------------------------------------------------------------- C10
\* r writes to the global tracker in this step
WritesGlobalInStep(r) ==
    /\ r \in YsNames
    /\ pc[r] \in {"TxGlobal", "AcctGlobal"}
    /\ pc'[r] # pc[r]

\* C10: once print_global_statistics has started reading the global tracker,
\* no runner performs a further write to it.
C10_NoWriteAfterStatistics ==
    [][ StatisticsStarted => \A r \in endpoints : ~ WritesGlobalInStep(r) ]_vars

\* ---------------------------------------------------------------- C11
\* r sits in its select! after the shutdown signal was broadcast
StreamingAfterSend(r) == pc[r] = "Streaming" /\ shutdown_sends > 0

\* every runner that has not left its loop holds the signal once it was sent
NoReceiverMisses ==
    \A r \in endpoints :
        (shutdown_sends > 0 /\ pc[r] \notin {"Exited", "Stats", "Terminated", "Failed", "Panicked"})
            => r \in shutdown_rx

\* C11 as stated: after the shutdown signal is broadcast, every runner that is
\* in Streaming, or enters Streaming later, eventually observes the signal,
\* exits its loop by it and terminates.
C11_EveryRunnerObservesSignal ==
    \A r \in Names :
        StreamingAfterSend(r) ~> (cause[r] = "shutdown" /\ pc[r] = "Terminated")

\* C11 as amended: no receiver misses the signal, and every runner that is in
\* Streaming after the broadcast eventually returns from its task: by
\* observing the signal, or before it by the end of its stream, by reaching
\* the target itself or by an error of a message it took first.
C11_EveryRunnerReturnsAfterSignal ==
    /\ [] NoReceiverMisses
    /\ \A r \in Names : StreamingAfterSend(r) ~> Done(r)

\* the signal is held for a runner that was still connecting when it was sent
C11_Witness == pc["ysB"] = "Connecting" /\ "ysB" \in shutdown_rx

\* ---------------------------------------------------------------- C12
\* the ways a runner ends that are not the shutdown protocol
Failures == {"stream_end", "connect_error", "log_error", "ping_error", "panic"}

\* r ends in this step because its stream closed or failed, by a fatal error
\* or by a panic on a message it cannot handle
EndsByFailure(r) == cause[r] = "none" /\ cause'[r] \in Failures

\* C12: when a runner ends because its stream closed or returned an error, or
\* by a fatal error, that step broadcasts no shutdown signal and leaves every
\* other runner where it is; and a runner leaves by shutdown only after a
\* shutdown signal was sent.
C12_RunnerFailureIsIsolated ==
    /\ [][ \A r \in endpoints :
              EndsByFailure(r) =>
                  /\ shutdown_sends' = shutdown_sends
                  /\ shutdown_rx' = shutdown_rx
                  /\ \A r2 \in endpoints \ {r} :
                        pc'[r2] = pc[r2] /\ cause'[r2] = cause[r2] ]_vars
    /\ [] (\A r \in endpoints : cause[r] = "shutdown" => shutdown_sends > 0)

\* one runner has ended by the end of its stream, the other has since handled
\* a transaction and is streaming, and no signal was sent
C12_Witness ==
    /\ cause["ysA"] = "stream_end"
    /\ pc["ysA"] = "Terminated"
    /\ pc["ysB"] = "Streaming"
    /\ transaction_count["ysB"] = 1
    /\ shutdown_sends = 0

\* ---------------------------------------------------------------- C13
\* the task of r has returned Ok(()) / an error
ReturnedOk(r) == pc[r] = "Terminated"
ReturnedErr(r) == pc[r] = "Failed"

\* C13 as stated: a task returns an error only when the initial
\* connect/subscribe failed; no event during Streaming makes it return an error.
C13_ErrOnlyOnConnectFailure ==
    \A r \in endpoints :
        /\ ReturnedErr(r) => cause[r] = "connect_error"
        /\ (Done(r) /\ cause[r] \in {"shutdown", "stream_end", "target"}) => ReturnedOk(r)

\* C13 as amended: a task returns Ok in every terminal case of the loop
\* (shutdown received, stream closed, stream error, target reached) and
\* returns an error exactly when the initial connect/subscribe failed, a
\* log entry could not be written or a ping reply could not be sent.
C13_ErrOnConnectLogOrPingFailure ==
    \A r \in endpoints :
        /\ ReturnedErr(r) <=> cause[r] \in {"connect_error", "log_error", "ping_error"}
        /\ ReturnedOk(r) => cause[r] \in {"shutdown", "stream_end", "target"}
        /\ (Done(r) /\ cause[r] \in {"shutdown", "stream_end", "target"}) => ReturnedOk(r)

\* a task has returned the error of a log write made while streaming, another
\* has returned Ok after the end of its stream
C13_Witness ==
    /\ ReturnedErr("shred") /\ cause["shred"] = "log_error"
    /\ ReturnedOk("ysA") /\ cause["ysA"] = "stream_end"

\* ---------------------------------------------------------------- C14
\* r finishes in this step the handling of an entry that did not deserialize
FinishesUndecodable(r) == in_hand[r] = "undecodable" /\ in_hand'[r] # "undecodable"
\* r takes in this step an entry that does not deserialize
TakesUndecodable(r) == in_hand[r] # "undecodable" /\ in_hand'[r] = "undecodable"

\* C14: a decode failure on one message is non-fatal: the runner is back in
\* Streaming once the message is handled, no shutdown is sent for it, and the
\* message changes no counter (valid count, transaction count) and makes no add.
C14_DecodeFailureIsNonFatal ==
    [][ \A r \in endpoints \cap ShredNames :
          /\ (TakesUndecodable(r) \/ FinishesUndecodable(r)) =>
                /\ get_valid_count(comparator') = get_valid_count(comparator)
                /\ transaction_count'[r] = transaction_count[r]
                /\ comparator' = comparator
                /\ observed' = observed
          /\ FinishesUndecodable(r) =>
                /\ pc'[r] = "Streaming"
                /\ shutdown_sends' = shutdown_sends ]_vars

\* ---------------------------------------------------------------- C15
\* r is at the critical section that may send the shutdown signal
AtSendSite(r) ==
    \/ r \in YsNames /\ pc[r] = "TxComp"
    \/ r \in ShredNames /\ pc[r] = "Entry" /\ pending[r] = << >>

\* C15: sending the shutdown signal never fails the sender: no runner panics
\* on shutdown_tx.send(()).unwrap(), a second send included, and a runner at
\* its send site is never blocked (its step can always be taken).
C15_SendNeverFailsSender ==
    /\ \A r \in endpoints : cause[r] # "send_panic"
    /\ \A r \in endpoints \cap YsNames : AtSendSite(r) => ENABLED YsTxComp(r)
    /\ \A r \in endpoints \cap ShredNames : AtSendSite(r) => ENABLED ShredCheck(r)

\* a second send was made by another runner after the first sender returned
C15_Witness ==
    /\ shutdown_sends = 2
    /\ cause["ysA"] = "target" /\ pc["ysA"] = "Terminated"
    /\ cause["shred"] = "target" /\ pc["shred"] = "Terminated"

\* ---------------------------------------------------------------- C16
\* r calls shutdown_tx.send in this step
SendsInStep(r) == shutdown_sends' > shutdown_sends /\ pc'[r] # pc[r]

\* C16: a runner broadcasts the shutdown signal only in the critical section
\* in which it has itself just made an add, with get_valid_count() == N right
\* after that add; never after handling a message for which it made no add.
C16_SendOnlyAfterOwnAdd ==
    [][ \A r \in endpoints :
          SendsInStep(r) =>
              /\ AddsInStep(r)
              /\ get_valid_count(comparator') = transactions ]_vars

\* ---------------------------------------------------------------- C17
\* the slot of d is set and d2 stores the same timestamp and endpoint in it
KeepsTransactionSlot(d, d2) ==
    d.transaction_timestamp # None =>
        /\ d2.transaction_timestamp = d.transaction_timestamp
        /\ d2.transaction_endpoint = d.transaction_endpoint
KeepsAccountSlot(d, d2) ==
    d.account_timestamp # None =>
        /\ d2.account_timestamp = d.account_timestamp
        /\ d2.account_endpoint = d.account_endpoint

\* C17: first local sighting wins: once a slot of a signature's local record
\* is set, a later observation of the same signature and slot on the same
\* runner leaves the stored timestamp and endpoint of that slot unchanged.
C17_FirstLocalSightingWins ==
    [][ \A r \in endpoints \cap YsNames :
          \A d \in stream_latencies[r] :
              \A d2 \in stream_latencies'[r] :
                  d2.signature = d.signature =>
                      KeepsTransactionSlot(d, d2) /\ KeepsAccountSlot(d, d2) ]_vars

\* ---------------------------------------------------------------- C18
\* the transaction observations r has merged into the global tracker
MergedBy(r) == {s \in submitted : s.endpoint = r /\ s.slot = "transaction"}

\* C18: a runner that left its loop by the shutdown signal has no message in
\* hand, and every transaction observation it recorded in the global tracker
\* is also in its local tracker and in the Race Tracker: no observation is
\* partially recorded when the runner terminates by shutdown.
C18_NoPartialRecordOnShutdown ==
    \A r \in endpoints :
        cause[r] = "shutdown" =>
            /\ in_hand[r] = "none"
            /\ r \in ShredNames => pending[r] = << >>
            /\ \A s \in MergedBy(r) :
                  /\ [endpoint |-> r, signature |-> s.signature] \in observed
                  /\ has_key(comparator, s.signature)
                  /\ has_entry(get(comparator, s.signature), r)
                  /\ has_key(stream_latencies[r], s.signature)
                  /\ get(stream_latencies[r], s.signature).transaction_timestamp # None

\* a runner that has recorded a transaction has left by the shutdown signal
C18_Witness ==
    /\ cause["ysB"] = "shutdown"
    /\ MergedBy("ysB") # {}
    /\ cause["ysA"] = "target"

\* ---------------------------------------------------------------- C19
\* r is suspended: awaiting connect/subscribe, its select!, or the ping reply
Suspended(r) == pc[r] \in {"Connecting", "Streaming", "PingReply"}

\* C19: a suspended runner holds neither the Race Tracker lock nor the
\* global Dual-Stream Tracker lock.
C19_NoLockAcrossSuspension ==
    \A r \in endpoints : Suspended(r) => guards[r] = {}

\* a runner that went through both critical sections awaits its ping reply
C19_Witness ==
    /\ pc["ysA"] = "PingReply"
    /\ MergedBy("ysA") # {}
    /\ \E o \in observed : o.endpoint = "ysA"

\* ---------------------------------------------------------------- C20
\* r takes a step
Steps(r) == pc'[r] # pc[r]

\* C20: a dual-stream runner that received a ping sends the reply before it
\* handles any other stream message or the shutdown signal; receiving the
\* ping and replying change neither tracker.
C20_PingReplyFirst ==
    [][ \A r \in endpoints \cap YsNames :
          /\ (in_hand[r] = "ping" /\ Steps(r)) =>
                /\ pc[r] = "PingReply"
                /\ pc'[r] \in {"Streaming", "Failed"}
                /\ cause'[r] \in {"none", "ping_error"}
                /\ in_hand'[r] = "none"
                /\ shutdown_rx' = shutdown_rx
                /\ budget' = budget
          /\ ((in_hand[r] = "ping" \/ in_hand'[r] = "ping") /\ Steps(r)) =>
                /\ stream_latencies' = stream_latencies
                /\ GLOBAL_ACCOUNT_TRACKER' = GLOBAL_ACCOUNT_TRACKER
                /\ comparator' = comparator ]_vars

\* a runner awaits its ping reply while the shutdown signal is held for it
C20_Witness == pc["ysB"] = "PingReply" /\ "ysB" \in shutdown_rx

\* ---------------------------------------------------------------- C21
\* the records of a tracker with both timestamps recorded
WithBothSignals(map) == {d \in map : both_streams(d)}

\* transaction timestamp - account timestamp of a record, in milliseconds
SignedDelta(d) ==
    (unwrap(d.transaction_timestamp) - unwrap(d.account_timestamp)) * 1000

\* the report rep, printed for the tracker content map, gives for every
\* signature with both timestamps the delta transaction - account in
\* milliseconds, counts it as account-first exactly when the account timestamp
\* is strictly earlier, and counts it in exactly one of the two classes
ReportsDeltaAndOrdering(rep, map) ==
    LET qualifying == WithBothSignals(map)
    IN  /\ rep.both_received = Cardinality(qualifying)
        /\ rep.timing_diffs = sorted_by(qualifying, [d \in qualifying |-> SignedDelta(d)])
        /\ qualifying # {} =>
              /\ rep.timing # None
              /\ unwrap(rep.timing).account_faster =
                    Cardinality({d \in qualifying :
                        unwrap(d.account_timestamp) < unwrap(d.transaction_timestamp)})
              /\ unwrap(rep.timing).account_faster + unwrap(rep.timing).tx_faster =
                    Cardinality(qualifying)

\* C21: for a signature whose account-update and transaction timestamps are
\* both recorded, every printed report (per endpoint and global) gives the
\* delta (transaction timestamp - account timestamp) in milliseconds, counts
\* the signature as account-first exactly when the account timestamp is
\* strictly earlier, and counts it in exactly one of the two classes.
C21_DeltaAndOrdering ==
    /\ \A r \in endpoints \cap YsNames :
          stream_report[r] # None =>
              ReportsDeltaAndOrdering(unwrap(stream_report[r]), stream_latencies[r])
    /\ global_report # None =>
          ReportsDeltaAndOrdering(unwrap(global_report), GLOBAL_ACCOUNT_TRACKER)

\* ---------------------------------------------------------------- C22
\* every quotient of a printed report
Quotients(rep) ==
    {w.percentage : w \in rep.account_endpoint_wins \cup rep.tx_endpoint_wins}
    \cup (IF rep.timing = None THEN {}
          ELSE { unwrap(rep.timing).account_percentage,
                 unwrap(rep.timing).tx_percentage,
                 unwrap(rep.timing).avg_diff })

\* no quotient of the report has a zero denominator, and without a signature
\* with both signals the both-signal section is skipped
NeverDividesByZero(rep) ==
    /\ \A q \in Quotients(rep) : q.den # 0
    /\ rep.both_received = 0 => rep.timing = None
    /\ rep.timing # None =>
          /\ unwrap(rep.timing).median_diff # None
          /\ unwrap(rep.timing).min_diff # None
          /\ unwrap(rep.timing).max_diff # None

\* C22: the Statistics Reporter never divides by zero: in every printed
\* report, an empty tracker and a tracker without a both-signal signature
\* included, every percentage and average has a non-zero denominator, and
\* when no signature has both signals the both-signal statistics are skipped.
C22_NeverDividesByZero ==
    /\ \A r \in endpoints \cap YsNames :
          stream_report[r] # None => NeverDividesByZero(unwrap(stream_report[r]))
    /\ global_report # None => NeverDividesByZero(unwrap(global_report))

\* the global statistics were printed for a tracker that is not empty and in
\* which no signature has both signals
C22_Witness ==
    /\ global_report # None
    /\ unwrap(global_report).tracked > 0
    /\ unwrap(global_report).both_received = 0
    /\ unwrap(global_report).account_endpoint_wins # {}

\* ---------------------------------------------------------------- C23
\* r1 is about to take a lock of which r2 holds the guard
WaitsFor(r1, r2) == \E l \in lock_wanted(r1) : l \in guards[r2]

\* C23: no task ever holds the Race Tracker lock and the global Dual-Stream
\* Tracker lock at the same time: a task holds at most one guard, it holds no
\* other guard when it takes a lock (the global tracker lock is released
\* before the Race Tracker lock is taken, print_global_statistics runs with
\* the Race Tracker lock released), and no tasks wait for each other's locks.
C23_NeverBothLocks ==
    /\ \A r \in endpoints :
          /\ Cardinality(guards[r]) <= 1
          /\ \A l \in lock_wanted(r) : guards[r] \ {l} = {}
          /\ pc[r] = "Stats" => "comparator" \notin guards[r]
    /\ \A r1, r2 \in endpoints : ~ (WaitsFor(r1, r2) /\ WaitsFor(r2, r1))

\* one task has left the global tracker's critical section and is about to
\* take the Race Tracker lock while another is about to take the global one
C23_Witness ==
    /\ pc["ysA"] = "TxComp" /\ MergedBy("ysA") # {}
    /\ pc["ysB"] = "TxGlobal"

\* ---------------------------------------------------------------- C24
\* in each slot the timestamp is set if and only if the endpoint is set
SlotsWellFormed(d) ==
    /\ d.account_timestamp = None <=> d.account_endpoint = None
    /\ d.transaction_timestamp = None <=> d.transaction_endpoint = None

\* a set timestamp old stays set and does not increase
NotLater(old, new) == old # None => (new # None /\ unwrap(new) <= unwrap(old))

\* C24: in every reachable state, for each signature and each slot of the
\* global tracker the timestamp is set if and only if the endpoint name is
\* set; and once set, the slot's timestamp never increases (and the record
\* is never removed) under any later update from any runner.
C24_GlobalRecordWellFormed ==
    /\ [] (\A d \in GLOBAL_ACCOUNT_TRACKER : SlotsWellFormed(d))
    /\ [][ \A d \in GLOBAL_ACCOUNT_TRACKER :
              /\ has_key(GLOBAL_ACCOUNT_TRACKER', d.signature)
              /\ \A d2 \in GLOBAL_ACCOUNT_TRACKER' :
                    d2.signature = d.signature =>
                        /\ NotLater(d.account_timestamp, d2.account_timestamp)
                        /\ NotLater(d.transaction_timestamp, d2.transaction_timestamp) ]_vars

\* the account slot of a signature holds the earlier of two merged
\* observations, each from a different runner
C24_Witness ==
    \E d \in GLOBAL_ACCOUNT_TRACKER :
        /\ d.account_timestamp = Some(0)
        /\ d.account_endpoint = Some("ysA")
        /\ [signature |-> d.signature, slot |-> "account",
            timestamp |-> 1, endpoint |-> "ysB"] \in submitted
        /\ [signature |-> d.signature, slot |-> "account",
            timestamp |-> 0, endpoint |-> "ysA"] \in submitted

\* ---------------------------------------------------------------- C25
\* r takes or finishes an account-update message in this step
HandlesAccount(r) ==
    /\ pc'[r] # pc[r]
    /\ in_hand[r] = "account" \/ in_hand'[r] = "account"

\* C25: handling an account-update message in a dual-stream runner performs
\* no add, changes neither the Race Tracker nor get_valid_count(), and sends
\* no shutdown signal; the Race Tracker changes only in a step of a runner
\* that is handling a transaction (or an entry of transactions).
C25_AccountUpdateLeavesRaceTracker ==
    /\ [][ \A r \in endpoints \cap YsNames :
              HandlesAccount(r) =>
                  /\ comparator' = comparator
                  /\ get_valid_count(comparator') = get_valid_count(comparator)
                  /\ observed' = observed
                  /\ transaction_count' = transaction_count
                  /\ shutdown_sends' = shutdown_sends
                  /\ shutdown_rx' = shutdown_rx
                  /\ pc[r] = "AcctGlobal" => pc'[r] = "AcctLog"
                  /\ pc[r] = "AcctLog" => pc'[r] \in {"Streaming", "Failed", "Panicked"} ]_vars
    /\ [][ comparator' # comparator =>
              \E r \in endpoints :
                  AddsInStep(r) /\ in_hand[r] \in {"transaction", "entry"} ]_vars

\* an account update has been handled completely, the target being 1, and
\* the Race Tracker is still empty and the runner streaming
C25_Witness ==
    /\ transactions = 1
    /\ pc["ysA"] = "Streaming"
    /\ \E s \in submitted : s.endpoint = "ysA" /\ s.slot = "account"
    /\ \E d \in stream_latencies["ysA"] : d.account_timestamp # None
    /\ comparator = {}

\* ---------------------------------------------------------------- C26
\* the dual-stream runners that left their loop by a break and have passed
\* the fetch_add
PassedFetchAdd ==
    {r \in endpoints \cap YsNames :
        /\ cause[r] \in {"shutdown", "stream_end", "target"}
        /\ pc[r] \in {"Stats", "Terminated"}}

\* C26: print_global_statistics is invoked at most once per process, for any
\* number of dual-stream runners and any interleaving of their exits: the
\* counter is incremented by one, once per runner that leaves its loop
\* normally (never by a runner that returns an error), and only the runner
\* whose fetch_add returned 1 goes on to invoke the reporter.
C26_ReporterAtMostOnce ==
    /\ [] (stats_calls <= 1)
    /\ [] (stats_calls + Cardinality({r \in endpoints : pc[r] = "Stats"}) <= 1)
    /\ [] (SHUTDOWN_COUNT = Cardinality(PassedFetchAdd))
    /\ [][ SHUTDOWN_COUNT' \in {SHUTDOWN_COUNT, SHUTDOWN_COUNT + 1} ]_vars
    /\ [][ \A r \in endpoints :
              (pc'[r] = "Stats" /\ pc[r] # "Stats") =>
                  (SHUTDOWN_COUNT = 1 /\ SHUTDOWN_COUNT' = 2) ]_vars

\* three dual-stream runners have all left their loop and passed the
\* counter, and the reporter has run once
C26_Witness ==
    /\ endpoints = {"ysA", "ysB", "ysC"}
    /\ SHUTDOWN_COUNT = 3
    /\ stats_calls = 1
    /\ \A r \in endpoints : pc[r] = "Terminated"

====
